---- MODULE Spec2Model ----
(***************************************************************************)
(* Live voice session of Omni-AI: the LiveInterface component              *)
(* (src/components/LiveInterface.tsx) and the LiveSession transport        *)
(* wrapper (src/constants.ts, lines 215-274); the chat of App.tsx          *)
(* (handleSend) and the response generator streamOrchestrateResponse       *)
(* (src/constants.ts, lines 93-166); the base64 codec of spec.md 4.1.      *)
(*                                                                         *)
(* Time is the output AudioContext's currentTime, counted in ticks; buffer *)
(* durations are whole ticks.  Every await of the source is a place where  *)
(* the handler is suspended and other handlers and the clock may run.      *)
(***************************************************************************)
EXTENDS Integers, Sequences, FiniteSets

\* ---------------------------------------------------------------- bounds
MaxTime == 2        \* the output clock is followed up to this tick
MaxChunks == 3      \* inbound audio chunks delivered in one session
MaxStops == 2       \* calls of stopSession
MaxCloses == 2      \* close events the remote transport emits
MaxFrames == 2      \* microphone frames the capture callback receives
MaxMounts == 2      \* times the LiveInterface component is mounted
MaxEarly == 1       \* chunks delivered to an instance before the next one is mounted
MaxLate == 1        \* chunks delivered to an instance after the next one was mounted
MaxBytes == 3       \* length of the byte buffers given to the base64 codec
MaxSends == 2       \* handleSend invocations that pass the empty-input guard
MaxUpdates == 2     \* updates the response streams yield, all together
MaxStreamChunks == 2  \* chunks the model stream delivers to the orchestrator
MaxCalls == 2       \* function calls in one chunk of the model stream

\* the durations, in ticks, of the buffers the inbound chunks decode to
Durations == {1, 2}

\* buffer durations of 0.5 s, 1.0 s and 2.0 s, in ticks of half a second
HalfSeconds == {1, 2, 4}

VARIABLES
    status,         \* useState status (LiveInterface.tsx:10)
    pcStart,        \* where startSession stands
    outputCtx,      \* outputCtxRef.current: "null", "running", "closed"
    inputCtx,       \* inputCtxRef.current:  "null", "running", "closed"
    stream,         \* streamRef.current: "null", "live", "stopped"
    processor,      \* processorRef.current: "null", "created", "connected", "disconnected"
    session,        \* the remote live session: "none", "opening", "open", "closed", "failed"
    clock,          \* outputCtx.currentTime
    nextStartTime,  \* nextStartTimeRef.current, the Playback Cursor
    chunks,         \* the playAudio invocations, in order of delivery
    schedule,       \* the source.start calls, in the order they were made
    stops,          \* how many times stopSession has run
    released,       \* how many times each release operation was performed
    onCloseCalls,   \* invocations of the onClose callback (LiveInterface.tsx:35)
    received,       \* audio chunks carried by the messages received so far
    captured,       \* frames the capture callback has passed to sendAudio
    awaiting,       \* frames of the sendAudio calls suspended on the session promise
    sent,           \* frames handed to sendRealtimeInput, in order
    mediaSource,    \* the `source` node of startSession (LiveInterface.tsx:30)
    mounts,         \* how many LiveInterface instances have been mounted
    prior,          \* the instance unmounted before the present mount, as it goes on
    codecIn,        \* the byte buffer given to arrayBufferToBase64
    codecText,      \* the base64 text produced from it
    codecOut,       \* the bytes b64ToUint8Array produced from the text
    codecPc,        \* "idle", "encoded", "decoded"
    messages,       \* useState messages (App.tsx:9)
    input,          \* useState input (App.tsx:10)
    isLoading,      \* useState isLoading (App.tsx:11)
    attachedImage,  \* useState attachedImage (App.tsx:12), set or null
    sends,          \* the handleSend invocations that started a stream
    genPc,          \* where streamOrchestrateResponse stands
    genChunk,       \* the chunk of the model stream it has in hand
    genCall,        \* the index of the function call it is at
    genYields,      \* the updates it has yielded for the chunk in hand
    genPulled,      \* how many chunks it has taken from the model stream
    genOutcome,     \* what the last generateImage / generateAudio call did
    genFailures     \* how many of those calls have thrown

vars == <<status, pcStart, outputCtx, inputCtx, stream, processor, session,
          clock, nextStartTime, chunks, schedule, stops, released,
          onCloseCalls, received, captured, awaiting, sent, mediaSource,
          mounts, prior, codecIn, codecText, codecOut, codecPc,
          messages, input, isLoading, attachedImage, sends,
          genPc, genChunk, genCall, genYields, genPulled, genOutcome, genFailures>>

audioVars == <<clock, nextStartTime, chunks, schedule>>
captureVars == <<captured, awaiting, sent>>
transportVars == <<onCloseCalls, received, captured, awaiting, sent>>
resourceVars == <<outputCtx, inputCtx, stream, processor, stops, released>>
codecVars == <<codecIn, codecText, codecOut, codecPc>>
chatVars == <<messages, input, isLoading, attachedImage, sends>>
genVars == <<genPc, genChunk, genCall, genYields, genPulled, genOutcome, genFailures>>

\* the state outside the live session component
appVars == <<mounts, prior, codecVars, chatVars, genVars>>

\* ------------------------------------------------------- pure operations

\* the resync without the max: the cursor is set to the clock
ResyncToNow(cursor, now) == now

\* Math.max(nextStartTimeRef.current, ctx.currentTime)
Resync(cursor, now) == IF cursor >= now THEN cursor ELSE now

\* an advance by a fixed step, whatever the buffer's duration
AdvanceByTick(cursor, d) == cursor + 1

\* the advance written with = in place of +=
AdvanceAssign(cursor, d) == d

\* nextStartTimeRef.current += audioBuffer.duration
Advance(cursor, d) == cursor + d

\* the catch block of startSession that only logs
CatchStatusKept(s) == s

\* LiveInterface.tsx:49-52: catch (err) { ...; setStatus('error') }
CatchStatus(s) == "error"

\* an onClose callback that leaves the status alone
OnCloseStatusKept(s) == s

\* LiveInterface.tsx:35: () => setStatus('disconnected')
OnCloseStatus(s) == "disconnected"

\* a playAudio that reports a failed decode as a failed session
DecodeFailureStatusError(s) == "error"

\* LiveInterface.tsx:55-66: playAudio has no catch; a failed decode rejects the
\* promise that onmessage dropped, and the status stays as it is
DecodeFailureStatus(s) == s

\* LiveInterface.tsx:31: the processor node is created, not yet connected
ProcessorAfterCreate == "created"

\* ref.current after its release operation, when the ref is set
ReleaseRef(ref, releasedValue) == IF ref # "null" THEN releasedValue ELSE ref

\* the count of a release operation after a stopSession that found `ref`
CountRelease(n, ref) == IF ref # "null" THEN n + 1 ELSE n

\* ----------------------------------------------------------------- Init

\* LiveInterface.tsx:10-16: the state and refs of a newly mounted instance
InitLive ==
    /\ status = "connecting"
    /\ pcStart = "begin"
    /\ outputCtx = "null"
    /\ inputCtx = "null"
    /\ stream = "null"
    /\ processor = "null"
    /\ session = "none"
    /\ clock = 0
    /\ nextStartTime = 0
    /\ chunks = << >>
    /\ schedule = << >>
    /\ stops = 0
    /\ released = [track |-> 0, processor |-> 0, inputCtx |-> 0, outputCtx |-> 0]
    /\ onCloseCalls = 0
    /\ received = 0
    /\ captured = 0
    /\ awaiting = << >>
    /\ sent = << >>
    /\ mediaSource = "null"
    /\ mounts = 1
    /\ prior = << >>

\* the codec with nothing to transcode
InitCodecIdle ==
    /\ codecIn = << >>
    /\ codecText = << >>
    /\ codecOut = << >>
    /\ codecPc = "idle"

\* App.tsx:9-12: the chat state of a newly mounted App
InitChat ==
    /\ messages = << >>
    /\ input = ""
    /\ isLoading = FALSE
    /\ attachedImage = FALSE
    /\ sends = << >>

\* constants.ts:93-96: streamOrchestrateResponse has been called
InitGen ==
    /\ genPc = "start"
    /\ genChunk = [text |-> FALSE, grounding |-> FALSE, calls |-> << >>]
    /\ genCall = 0
    /\ genYields = << >>
    /\ genPulled = 0
    /\ genOutcome = "none"
    /\ genFailures = 0

Init == InitLive /\ InitCodecIdle /\ InitChat /\ InitGen

\* ---------------------------------------------------------- startSession

\* LiveInterface.tsx:25-29: both contexts are created, getUserMedia is awaited
startSession_create ==
    /\ pcStart = "begin"
    /\ outputCtx' = "running"
    /\ inputCtx' = "running"
    /\ pcStart' = "awaitMedia"
    /\ UNCHANGED <<status, stream, processor, session, audioVars, stops, released,
                   transportVars>>
    /\ UNCHANGED <<mediaSource, appVars>>

\* LiveInterface.tsx:27-28, 49-52: the AudioContext constructor throws
startSession_createFails ==
    /\ pcStart = "begin"
    /\ \E outputMade \in BOOLEAN :
          outputCtx' = IF outputMade THEN "running" ELSE "null"
    /\ status' = CatchStatus(status)
    /\ pcStart' = "failed"
    /\ UNCHANGED <<inputCtx, stream, processor, session, audioVars, stops, released,
                   transportVars>>
    /\ UNCHANGED <<mediaSource, appVars>>

\* LiveInterface.tsx:29-38: the microphone is granted; the graph nodes and the
\* LiveSession are created and connect() is awaited.  Creating a node on a
\* context that stopSession has closed may or may not throw, by platform.
startSession_gotMedia ==
    /\ pcStart = "awaitMedia"
    /\ stream' = "live"
    /\ \E throws \in (IF inputCtx = "closed" THEN BOOLEAN ELSE {FALSE}) :
          IF throws
          THEN /\ status' = CatchStatus(status)
               /\ pcStart' = "failed"
               /\ UNCHANGED <<processor, session, mediaSource>>
          ELSE /\ mediaSource' = "created"
               /\ processor' = ProcessorAfterCreate
               /\ session' = "opening"
               /\ pcStart' = "awaitConnect"
               /\ UNCHANGED status
    /\ UNCHANGED <<outputCtx, inputCtx, audioVars, stops, released, transportVars>>
    /\ UNCHANGED appVars

\* LiveInterface.tsx:29, 49-52: getUserMedia rejects
startSession_mediaDenied ==
    /\ pcStart = "awaitMedia"
    /\ status' = CatchStatus(status)
    /\ pcStart' = "failed"
    /\ UNCHANGED <<outputCtx, inputCtx, stream, processor, session, audioVars,
                   stops, released, transportVars>>
    /\ UNCHANGED <<mediaSource, appVars>>

\* LiveInterface.tsx:38-47: connect() resolves; the status is set to active and
\* the capture graph is wired, whatever the close callback did in the meantime
startSession_connected ==
    /\ pcStart = "awaitConnect"
    /\ session' = "open"
    /\ status' = "active"
    /\ processor' = "connected"
    /\ pcStart' = "done"
    /\ UNCHANGED <<outputCtx, inputCtx, stream, audioVars, stops, released,
                   transportVars>>
    /\ mediaSource' = "connected"
    /\ UNCHANGED appVars

\* LiveInterface.tsx:38, 49-52: connect() rejects
startSession_connectFails ==
    /\ pcStart = "awaitConnect"
    /\ session' = IF session = "opening" THEN "failed" ELSE session
    /\ status' = CatchStatus(status)
    /\ pcStart' = "failed"
    /\ UNCHANGED <<outputCtx, inputCtx, stream, processor, audioVars, stops, released,
                   transportVars>>
    /\ UNCHANGED <<mediaSource, appVars>>

\* constants.ts:237-240 with LiveInterface.tsx:35: the transport emits close,
\* before connect() has settled or after it has resolved or rejected; the
\* callbacks were registered when connect() was called (constants.ts:227-242)
\* and nothing unregisters or gates them
onclose ==
    /\ session \in {"opening", "open", "failed"}
    /\ onCloseCalls < MaxCloses
    /\ session' = "closed"
    /\ status' = OnCloseStatus(status)
    /\ onCloseCalls' = onCloseCalls + 1
    /\ UNCHANGED <<pcStart, resourceVars, audioVars, received, captureVars>>
    /\ UNCHANGED <<mediaSource, appVars>>

\* constants.ts:237-240: the transport emits a further close event; onclose
\* forwards every one of them to onClose
onclose_again ==
    /\ session = "closed"
    /\ onCloseCalls < MaxCloses
    /\ status' = OnCloseStatus(status)
    /\ onCloseCalls' = onCloseCalls + 1
    /\ UNCHANGED <<pcStart, session, resourceVars, audioVars, received, captureVars>>
    /\ UNCHANGED <<mediaSource, appVars>>

\* ------------------------------------------------------------- playAudio

\* LiveInterface.tsx:55-60: playAudio is called with a chunk; it resynchronises
\* the cursor and suspends on the decode.
playAudio_enter(d) ==
    /\ outputCtx # "null"
    /\ Len(chunks) < MaxChunks
    /\ nextStartTime' = Resync(nextStartTime, clock)
    /\ chunks' = Append(chunks, [pc |-> "decoding", d |-> d, enteredAt |-> clock,
                                 idle |-> (nextStartTime <= clock)])
    /\ UNCHANGED <<status, pcStart, session, resourceVars, clock, schedule,
                   onCloseCalls, captureVars>>
    /\ UNCHANGED <<mediaSource, appVars>>

\* the shapes of a server message: its modelTurn parts, each audio or text
MessageShapes == {<< >>, <<"text">>, <<"audio">>, <<"text", "audio">>, <<"audio", "audio">>}

\* the audio chunks a message carries
AudioParts(parts) == Cardinality({k \in 1..Len(parts) : parts[k] = "audio"})

\* constants.ts:232: msg.serverContent?.modelTurn?.parts?.[0]?.inlineData?.data
FirstPartAudio(parts) == Len(parts) > 0 /\ parts[1] = "audio"

\* constants.ts:231-236: the transport delivers a message to the callback
\* registered at connect() (constants.ts:227-242), in whatever state the session
\* is; onAudioData (playAudio) is called with the audio of its first part, if it
\* has any
onmessage(parts, d) ==
    /\ session # "none"
    /\ received + AudioParts(parts) <= MaxChunks
    /\ received' = received + AudioParts(parts)
    /\ IF FirstPartAudio(parts)
       THEN playAudio_enter(d)
       ELSE UNCHANGED <<status, pcStart, session, resourceVars, audioVars,
                        onCloseCalls, captureVars, mediaSource, appVars>>

\* a message whose only part is one audio chunk
onmessage_audio(d) == onmessage(<<"audio">>, d)

\* LiveInterface.tsx:60-65: the decode of chunk i is done; the buffer is
\* started at the cursor and the cursor is advanced.
playAudio_resume(i) ==
    /\ chunks[i].pc = "decoding"
    /\ schedule' = Append(schedule, [id |-> i, t |-> nextStartTime, d |-> chunks[i].d,
                                     now |-> clock, stopped |-> (stops > 0),
                                     node |-> "connected"])
    /\ nextStartTime' = Advance(nextStartTime, chunks[i].d)
    /\ chunks' = [chunks EXCEPT ![i].pc = "scheduled"]
    /\ UNCHANGED <<status, pcStart, session, resourceVars, clock, transportVars>>
    /\ UNCHANGED <<mediaSource, appVars>>

\* LiveInterface.tsx:59-60: b64ToUint8Array or decodeAudioData throws; the
\* promise of playAudio rejects and nothing after the await runs.
playAudio_decodeFails(i) ==
    /\ chunks[i].pc = "decoding"
    /\ chunks' = [chunks EXCEPT ![i].pc = "failed"]
    /\ status' = DecodeFailureStatus(status)
    /\ UNCHANGED <<pcStart, session, resourceVars, clock, nextStartTime, schedule,
                   transportVars>>
    /\ UNCHANGED <<mediaSource, appVars>>

\* ---------------------------------------------------- capture, sendAudio

\* a sendRealtimeInput call made twice for one frame
TransmitTwice(out, frame) == Append(Append(out, frame), frame)

\* constants.ts:261-266: session.sendRealtimeInput({media: ...})
Transmit(out, frame) == Append(out, frame)

\* LiveInterface.tsx:41-44 and constants.ts:254-260: the processor delivers a
\* frame; sendAudio encodes it and suspends on the session promise
onaudioprocess ==
    /\ processor = "connected"
    /\ inputCtx = "running"
    /\ captured < MaxFrames
    /\ captured' = captured + 1
    /\ awaiting' = Append(awaiting, captured + 1)
    /\ UNCHANGED <<status, pcStart, session, resourceVars, audioVars, onCloseCalls,
                   received, sent>>
    /\ UNCHANGED <<mediaSource, appVars>>

\* constants.ts:260-266: the session promise is resolved; the suspended
\* sendAudio calls resume in the order they awaited it
sendAudio_resume ==
    /\ pcStart = "done"
    /\ awaiting # << >>
    /\ sent' = Transmit(sent, Head(awaiting))
    /\ awaiting' = Tail(awaiting)
    /\ UNCHANGED <<status, pcStart, session, resourceVars, audioVars, onCloseCalls,
                   received, captured>>
    /\ UNCHANGED <<mediaSource, appVars>>

\* ----------------------------------------------------------- stopSession

\* a stopSession that rewinds the cursor
CursorResetOnStop(cursor) == 0

\* LiveInterface.tsx:68-74: stopSession does not touch nextStartTimeRef
CursorAfterStop(cursor) == cursor

\* LiveInterface.tsx:68-74 (LiveSession.disconnect, constants.ts:269-273, does nothing)
stopSession ==
    /\ pcStart # "begin"
    /\ stops < MaxStops
    /\ stream' = ReleaseRef(stream, "stopped")
    /\ processor' = ReleaseRef(processor, "disconnected")
    /\ inputCtx' = ReleaseRef(inputCtx, "closed")
    /\ outputCtx' = ReleaseRef(outputCtx, "closed")
    /\ released' = [track |-> CountRelease(released.track, stream),
                    processor |-> CountRelease(released.processor, processor),
                    inputCtx |-> CountRelease(released.inputCtx, inputCtx),
                    outputCtx |-> CountRelease(released.outputCtx, outputCtx)]
    /\ stops' = stops + 1
    /\ nextStartTime' = CursorAfterStop(nextStartTime)
    /\ UNCHANGED <<status, pcStart, session, clock, chunks, schedule, transportVars>>
    /\ UNCHANGED <<mediaSource, appVars>>

\* ---------------------------------------------------- sequential mounts

\* a cursor kept in a module-level variable, shared by the instances
CursorAtMountShared(previous) == previous

\* LiveInterface.tsx:14: useRef<number>(0), a new ref for every instance
CursorAtMount(previous) == 0

liveVars == <<status, pcStart, session, resourceVars, audioVars, transportVars,
              mediaSource>>

\* App.tsx:150-151, 168 with LiveInterface.tsx:18-22: the user leaves the live
\* mode; the component is unmounted and its effect cleanup runs stopSession,
\* once.  Nothing is mounted afterwards, and the handlers of the unmounted
\* instance go on running on its state and refs.
unmount ==
    /\ stops = 0
    /\ stopSession

\* the durations of the chunks whose decode is pending, in order of delivery
PendingDecodes(cs) ==
    LET pending == SelectSeq([i \in 1..Len(cs) |-> i], LAMBDA i : cs[i].pc = "decoding")
    IN  [k \in 1..Len(pending) |-> cs[pending[k]].d]

\* App.tsx:150-151, 174 with LiveInterface.tsx:10-22: the user selects the live
\* mode again; a new instance is mounted with state and refs of its own.  The
\* instance unmounted before it is kept as `prior`: its callbacks stay
\* registered (disconnect(), constants.ts:269-273, does nothing), so its
\* startSession goes on and its transport can still deliver chunks to its
\* playAudio.
mount ==
    /\ stops >= 1
    /\ mounts < MaxMounts
    /\ mounts' = mounts + 1
    /\ prior' = << [status |-> status,
                    pcStart |-> pcStart,
                    session |-> session,
                    outputCtx |-> outputCtx,
                    inputCtx |-> inputCtx,
                    nextStartTime |-> nextStartTime,
                    clock |-> clock,
                    late |-> 0,
                    decoding |-> PendingDecodes(chunks)] >>
    /\ status' = "connecting"
    /\ pcStart' = "begin"
    /\ outputCtx' = "null"
    /\ inputCtx' = "null"
    /\ stream' = "null"
    /\ processor' = "null"
    /\ mediaSource' = "null"
    /\ session' = "none"
    /\ clock' = 0
    /\ nextStartTime' = CursorAtMount(nextStartTime)
    /\ chunks' = << >>
    /\ schedule' = << >>
    /\ stops' = 0
    /\ released' = [track |-> 0, processor |-> 0, inputCtx |-> 0, outputCtx |-> 0]
    /\ onCloseCalls' = 0
    /\ received' = 0
    /\ captured' = 0
    /\ awaiting' = << >>
    /\ sent' = << >>
    /\ UNCHANGED <<codecVars, chatVars, genVars>>

\* LiveInterface.tsx:29-38 in an unmounted instance m: its getUserMedia
\* resolves; the nodes are created on its input context, which may throw when
\* the context is closed, and connect() is awaited
prior_startSession_gotMedia(m) ==
    /\ prior[m].pcStart = "awaitMedia"
    /\ \E throws \in (IF prior[m].inputCtx = "closed" THEN BOOLEAN ELSE {FALSE}) :
          prior' = IF throws
                   THEN [prior EXCEPT ![m].status = CatchStatus(@),
                                      ![m].pcStart = "failed"]
                   ELSE [prior EXCEPT ![m].session = "opening",
                                      ![m].pcStart = "awaitConnect"]
    /\ UNCHANGED <<liveVars, mounts>>
    /\ UNCHANGED <<codecVars, chatVars, genVars>>

\* LiveInterface.tsx:29, 49-52 in an unmounted instance m: its getUserMedia
\* rejects
prior_startSession_mediaDenied(m) ==
    /\ prior[m].pcStart = "awaitMedia"
    /\ prior' = [prior EXCEPT ![m].status = CatchStatus(@),
                              ![m].pcStart = "failed"]
    /\ UNCHANGED <<liveVars, mounts>>
    /\ UNCHANGED <<codecVars, chatVars, genVars>>

\* LiveInterface.tsx:38, 49-52 in an unmounted instance m: its connect() rejects
prior_startSession_connectFails(m) ==
    /\ prior[m].pcStart = "awaitConnect"
    /\ prior' = [prior EXCEPT ![m].session = IF @ = "opening" THEN "failed" ELSE @,
                              ![m].status = CatchStatus(@),
                              ![m].pcStart = "failed"]
    /\ UNCHANGED <<liveVars, mounts>>
    /\ UNCHANGED <<codecVars, chatVars, genVars>>

\* constants.ts:237-240 with LiveInterface.tsx:35 in an unmounted instance m:
\* its transport emits close, for the first time or again; its onClose callback
\* sets its status
prior_onclose(m) ==
    /\ prior[m].session # "none"
    /\ prior' = [prior EXCEPT ![m].session = "closed",
                              ![m].status = OnCloseStatus(@)]
    /\ prior' # prior
    /\ UNCHANGED <<liveVars, mounts>>
    /\ UNCHANGED <<codecVars, chatVars, genVars>>

\* LiveInterface.tsx:38-47 in an unmounted instance m: its connect() resolves
prior_startSession_connected(m) ==
    /\ prior[m].pcStart = "awaitConnect"
    /\ prior' = [prior EXCEPT ![m].session = "open",
                              ![m].status = "active",
                              ![m].pcStart = "done"]
    /\ UNCHANGED <<liveVars, mounts>>
    /\ UNCHANGED <<codecVars, chatVars, genVars>>

\* LiveInterface.tsx:55-60 with constants.ts:231-236 in an unmounted instance m:
\* its transport delivers a chunk, its playAudio resynchronises its own cursor
\* against its own (closed) output context and suspends on the decode
prior_playAudio_enter(m, d) ==
    /\ prior[m].session # "none"
    /\ prior[m].outputCtx # "null"
    /\ prior[m].late < MaxLate
    /\ prior' = [prior EXCEPT ![m].nextStartTime = Resync(prior[m].nextStartTime, prior[m].clock),
                              ![m].late = @ + 1,
                              ![m].decoding = Append(@, d)]
    /\ UNCHANGED <<liveVars, mounts>>
    /\ UNCHANGED <<codecVars, chatVars, genVars>>

\* a sequence without its j-th element
RemoveAt(seq, j) == SubSeq(seq, 1, j - 1) \o SubSeq(seq, j + 1, Len(seq))

\* LiveInterface.tsx:60-65 in an unmounted instance m: its j-th pending decode
\* is done; the buffer is started at that instance's cursor, which is advanced
prior_playAudio_resume(m, j) ==
    /\ j \in 1..Len(prior[m].decoding)
    /\ prior' = [prior EXCEPT ![m].nextStartTime = Advance(@, prior[m].decoding[j]),
                              ![m].decoding = RemoveAt(@, j)]
    /\ UNCHANGED <<liveVars, mounts>>
    /\ UNCHANGED <<codecVars, chatVars, genVars>>

\* LiveInterface.tsx:59-60 in an unmounted instance m: its j-th pending decode
\* rejects; nothing after the await runs
prior_playAudio_decodeFails(m, j) ==
    /\ j \in 1..Len(prior[m].decoding)
    /\ prior' = [prior EXCEPT ![m].status = DecodeFailureStatus(@),
                              ![m].decoding = RemoveAt(@, j)]
    /\ UNCHANGED <<liveVars, mounts>>
    /\ UNCHANGED <<codecVars, chatVars, genVars>>

\* ----------------------------------------------------------- base64 codec

\* the byte values the buffers are built from
ByteValues == {0, 1, 127, 128, 255}

\* the byte buffers given to the codec
ByteBuffers == UNION {[1..n -> ByteValues] : n \in 0..MaxBytes}

\* the padding character "=", beside the 64 digits 0..63
Pad == 64

\* bytesToBase64, the standard transcoding: every 3 bytes give 4 digits of 6
\* bits; a last group of 1 or 2 bytes gives 2 or 3 digits and padding
RECURSIVE bytesToBase64(_)
bytesToBase64(b) ==
    IF Len(b) = 0 THEN << >>
    ELSE LET b2 == IF Len(b) >= 2 THEN b[2] ELSE 0
             b3 == IF Len(b) >= 3 THEN b[3] ELSE 0
             n == b[1] * 65536 + b2 * 256 + b3
             digits == << n \div 262144, (n \div 4096) % 64, (n \div 64) % 64, n % 64 >>
         IN  IF Len(b) = 1 THEN <<digits[1], digits[2], Pad, Pad>>
             ELSE IF Len(b) = 2 THEN <<digits[1], digits[2], digits[3], Pad>>
             ELSE digits \o bytesToBase64(SubSeq(b, 4, Len(b)))

\* a decoder that takes the padding for data
UnpadKeepsAll(group, pads) == group

\* the bytes of a decoded group of 4 digits, `pads` of which were padding
Unpad(group, pads) == SubSeq(group, 1, 3 - pads)

\* base64ToBytes, the standard transcoding: every 4 digits give 3 bytes, less
\* one byte for each padding character
RECURSIVE base64ToBytes(_)
base64ToBytes(t) ==
    IF Len(t) < 4 THEN << >>
    ELSE LET digit(k) == IF t[k] = Pad THEN 0 ELSE t[k]
             pads == Cardinality({k \in 3..4 : t[k] = Pad})
             n == digit(1) * 262144 + digit(2) * 4096 + digit(3) * 64 + digit(4)
             group == << n \div 65536, (n \div 256) % 256, n % 256 >>
         IN  Unpad(group, pads) \o base64ToBytes(SubSeq(t, 5, Len(t)))

\* a byte buffer is at hand
InitCodec ==
    /\ InitLive
    /\ codecIn \in ByteBuffers
    /\ codecText = << >>
    /\ codecOut = << >>
    /\ codecPc = "idle"
    /\ InitChat
    /\ InitGen

\* constants.ts:258: arrayBufferToBase64(uint8Data.buffer)
arrayBufferToBase64 ==
    /\ codecPc = "idle"
    /\ codecText' = bytesToBase64(codecIn)
    /\ codecPc' = "encoded"
    /\ UNCHANGED <<liveVars, mounts, prior, codecIn, codecOut, chatVars, genVars>>

\* LiveInterface.tsx:59: b64ToUint8Array(base64Data)
b64ToUint8Array ==
    /\ codecPc = "encoded"
    /\ codecOut' = base64ToBytes(codecText)
    /\ codecPc' = "decoded"
    /\ UNCHANGED <<liveVars, mounts, prior, codecIn, codecText, chatVars, genVars>>

\* ------------------------------------------------------------------ chat

\* what the user can have in the textarea
Inputs == {"", " ", "hi"}

\* String.prototype.trim on those inputs
Trim(text) == IF text = " " THEN "" ELSE text

\* the kinds of update streamOrchestrateResponse yields (constants.ts:318-322)
UpdateTypes == {"text_delta", "grounding", "block", "thought"}

\* App.tsx:137: the text block the catch block appends
Interrupted == [type |-> "text", content |-> <<"[Connection interrupted]">>, grounding |-> 0]

\* App.tsx:83-84, 107-108, 124-125, 135-136, 143-144:
\* prev.map(msg => msg.id === botMsgId ? ... : msg) changes every message that
\* carries the id; these are their positions
WithId(msgs, id) == {k \in 1..Len(msgs) : msgs[k].id = id}

\* the milliseconds Date.now() can have advanced by since it was last read
\* before a handleSend: none, one, or more
Elapsed == {0, 1, 2}

\* the milliseconds Date.now() can advance by between lines 50 and 62
Ticks == {0, 1}

\* the position of the first text block of a content, 0 if it has none
\* (findIndex(b => b.type === 'text'), App.tsx:87, 110)
TextBlockIdx(content) ==
    IF \E k \in 1..Len(content) : content[k].type = "text"
    THEN CHOOSE k \in 1..Len(content) :
            /\ content[k].type = "text"
            /\ \A j \in 1..(k - 1) : content[j].type # "text"
    ELSE 0

\* App.tsx:236: the user edits the textarea
setInput(text) ==
    /\ input' = text
    /\ input # text
    /\ UNCHANGED <<liveVars, mounts, prior, codecVars, genVars, messages, isLoading,
                   attachedImage, sends>>

\* App.tsx:21-31: the user attaches an image
handleFileSelect ==
    /\ ~attachedImage
    /\ attachedImage' = TRUE
    /\ UNCHANGED <<liveVars, mounts, prior, codecVars, genVars, messages, isLoading, input, sends>>

\* App.tsx:216-222: the user removes the attached image with the x button,
\* which is rendered while an image is attached
removeImage ==
    /\ attachedImage
    /\ attachedImage' = FALSE
    /\ UNCHANGED <<liveVars, mounts, prior, codecVars, genVars, messages, isLoading, input, sends>>

\* App.tsx:33-74: handleSend up to the start of the stream.  The user message
\* takes Date.now() as its id (line 50) and the bot placeholder Date.now() + 1
\* (line 62); the clock stands at 1 at the first send, has advanced by `elapsed`
\* since its last reading at a later one, and advances by `tick` between the two
\* readings.  Nothing keeps the ids of different invocations apart.
handleSend(elapsed, tick) ==
    /\ Len(sends) < MaxSends
    /\ ~(Trim(input) = "" /\ ~attachedImage)
    /\ LET userId == IF sends = << >> THEN 1 ELSE sends[Len(sends)].now + elapsed
           now == userId + tick
           botMsgId == now + 1
           userContent ==
               (IF attachedImage
                THEN <<[type |-> "image", content |-> << >>, grounding |-> 0]>>
                ELSE << >>)
               \o (IF Trim(input) # ""
                   THEN <<[type |-> "text", content |-> <<input>>, grounding |-> 0]>>
                   ELSE << >>)
       IN  /\ messages' = messages
                \o << [id |-> userId, role |-> "user", content |-> userContent,
                       isThinking |-> FALSE],
                      [id |-> botMsgId, role |-> "model", content |-> << >>,
                       isThinking |-> TRUE] >>
           /\ sends' = Append(sends, [botMsgId |-> botMsgId, now |-> now,
                                      pc |-> "streaming", updates |-> 0,
                                      currentTextContent |-> << >>,
                                      currentGrounding |-> 0])
    /\ input' = ""
    /\ attachedImage' = FALSE
    /\ isLoading' = TRUE
    /\ UNCHANGED <<liveVars, mounts, prior, codecVars, genVars>>

\* App.tsx:80-102: a text_delta update for a message with the bot id; its first
\* text block, updated or new, takes the text the stream has yielded so far
\* (currentTextContent) and the grounding received so far
OnTextDelta(msg, text, grounding) ==
    LET idx == TextBlockIdx(msg.content)
        newContent ==
            IF idx # 0
            THEN [msg.content EXCEPT ![idx].content = text,
                                     ![idx].grounding = grounding]
            ELSE Append(msg.content,
                        [type |-> "text", content |-> text, grounding |-> grounding])
    IN  [msg EXCEPT !.content = newContent, !.isThinking = FALSE]

\* App.tsx:104-121: a grounding update refreshes the text block, if there is one
OnGrounding(msg, grounding) ==
    LET idx == TextBlockIdx(msg.content)
    IN  IF idx # 0
        THEN [msg EXCEPT !.content[idx].grounding = grounding]
        ELSE msg

\* App.tsx:122-130: a generated image or audio block is appended
OnBlock(msg) ==
    [msg EXCEPT !.content = Append(@, [type |-> "media", content |-> << >>,
                                       grounding |-> 0]),
                !.isThinking = FALSE]

\* the updates the streams have yielded so far
RECURSIVE TotalUpdates(_)
TotalUpdates(n) == IF n = 0 THEN 0 ELSE TotalUpdates(n - 1) + sends[n].updates

\* App.tsx:78-131: one iteration of the for await loop of invocation k
stream_update(k, type) ==
    /\ sends[k].pc = "streaming"
    /\ TotalUpdates(Len(sends)) < MaxUpdates
    /\ LET id == sends[k].botMsgId
           text == Append(sends[k].currentTextContent, "delta")
           grounding == sends[k].currentGrounding + 1
       IN  /\ messages' =
                 [at \in 1..Len(messages) |->
                     IF at \notin WithId(messages, id) THEN messages[at]
                     ELSE IF type = "text_delta"
                     THEN OnTextDelta(messages[at], text, sends[k].currentGrounding)
                     ELSE IF type = "grounding" THEN OnGrounding(messages[at], grounding)
                     ELSE IF type = "block" THEN OnBlock(messages[at])
                     ELSE messages[at]]
           /\ sends' = [sends EXCEPT ![k].updates = @ + 1,
                                     ![k].currentTextContent =
                                         IF type = "text_delta" THEN text ELSE @,
                                     ![k].currentGrounding =
                                         IF type = "grounding" THEN grounding ELSE @]
    /\ UNCHANGED <<liveVars, mounts, prior, codecVars, genVars, input, isLoading, attachedImage>>

\* App.tsx:143-146: finally sets isThinking of the bot message to false
FinallyThinking(thinking) == FALSE

\* App.tsx:135-140: catch appends the notice to the content received so far
CatchContent(content) == Append(content, Interrupted)

\* App.tsx:131, 141-147: the stream ends; the finally block runs
stream_done(k) ==
    /\ sends[k].pc = "streaming"
    /\ messages' =
          [at \in 1..Len(messages) |->
              IF at \in WithId(messages, sends[k].botMsgId)
              THEN [messages[at] EXCEPT !.isThinking = FinallyThinking(@)]
              ELSE messages[at]]
    /\ isLoading' = FALSE
    /\ sends' = [sends EXCEPT ![k].pc = "done"]
    /\ UNCHANGED <<liveVars, mounts, prior, codecVars, genVars, input, attachedImage>>

\* App.tsx:133-147: the stream throws; the catch and the finally block run
stream_throws(k) ==
    /\ sends[k].pc = "streaming"
    /\ messages' =
          [at \in 1..Len(messages) |->
              IF at \in WithId(messages, sends[k].botMsgId)
              THEN [messages[at] EXCEPT !.content = CatchContent(@),
                                        !.isThinking = FinallyThinking(@)]
              ELSE messages[at]]
    /\ isLoading' = FALSE
    /\ sends' = [sends EXCEPT ![k].pc = "failed"]
    /\ UNCHANGED <<liveVars, mounts, prior, codecVars, genVars, input, attachedImage>>

\* ------------------------------------------------ streamOrchestrateResponse

\* the names a function call of the model can carry
CallNames == {"generate_image", "generate_audio", "other"}

\* a function call: its name, and whether it carries args (args is optional)
Calls == [name : CallNames \ {"other"}, args : BOOLEAN]
             \cup {[name |-> "other", args |-> TRUE]}

\* the function calls of one chunk: up to MaxCalls of them
CallLists == UNION {[1..n -> Calls] : n \in 0..MaxCalls}

\* the chunks the model stream can deliver
ModelChunks == [text : BOOLEAN, grounding : BOOLEAN, calls : CallLists]

\* an update as the generator yields it: its type, the function call it
\* belongs to (0 for the chunk's own text and grounding) and whether it is
\* the text of a tool error
Update(type, call, error) == [type |-> type, call |-> call, error |-> error]

otherVars == <<liveVars, mounts, prior, codecVars, chatVars>>

\* constants.ts:97-120: the request is built and generateContentStream resolves
gen_start ==
    /\ genPc = "start"
    /\ genPc' = "pull"
    /\ UNCHANGED <<genChunk, genCall, genYields, genPulled, genOutcome, genFailures, otherVars>>

\* constants.ts:110, 122: generateContentStream rejects or the model stream
\* throws; the generator throws to its consumer
gen_streamThrows ==
    /\ genPc \in {"start", "pull"}
    /\ genPc' = "failed"
    /\ UNCHANGED <<genChunk, genCall, genYields, genPulled, genOutcome, genFailures, otherVars>>

\* constants.ts:122: the for await loop takes the next chunk
gen_pull(chunk) ==
    /\ genPc = "pull"
    /\ genPulled < MaxStreamChunks
    /\ genChunk' = chunk
    /\ genPulled' = genPulled + 1
    /\ genYields' = << >>
    /\ genCall' = 0
    /\ genPc' = "text"
    /\ UNCHANGED <<genOutcome, genFailures, otherVars>>

\* constants.ts:122, 165-166: the model stream is exhausted; the generator returns
gen_end ==
    /\ genPc = "pull"
    /\ genPc' = "done"
    /\ UNCHANGED <<genChunk, genCall, genYields, genPulled, genOutcome, genFailures, otherVars>>

\* constants.ts:124-127: the chunk's text, if any, is yielded as a text_delta
gen_text ==
    /\ genPc = "text"
    /\ genYields' = IF genChunk.text
                    THEN Append(genYields, Update("text_delta", 0, FALSE))
                    ELSE genYields
    /\ genPc' = "grounding"
    /\ UNCHANGED <<genChunk, genCall, genPulled, genOutcome, genFailures, otherVars>>

\* constants.ts:130-132: the chunk's grounding metadata, if any, is yielded
gen_grounding ==
    /\ genPc = "grounding"
    /\ genYields' = IF genChunk.grounding
                    THEN Append(genYields, Update("grounding", 0, FALSE))
                    ELSE genYields
    /\ genCall' = 1
    /\ genPc' = "calls"
    /\ UNCHANGED <<genChunk, genPulled, genOutcome, genFailures, otherVars>>

\* constants.ts:136-141, 151-153: the loop over the function calls is at call
\* genCall.  A generate_image call reads args.prompt for its thought, outside
\* the try: without args that throws to the consumer; otherwise the thought is
\* yielded and the tool is awaited.  A generate_audio call yields its thought
\* and enters the try.  A call of another name is passed over; after the last
\* call the next chunk is awaited.
gen_call ==
    /\ genPc = "calls"
    /\ IF genCall > Len(genChunk.calls)
       THEN /\ genPc' = "pull"
            /\ UNCHANGED <<genCall, genYields>>
       ELSE IF genChunk.calls[genCall].name = "generate_image"
                 /\ ~genChunk.calls[genCall].args
       THEN /\ genPc' = "failed"
            /\ UNCHANGED <<genCall, genYields>>
       ELSE IF genChunk.calls[genCall].name \in {"generate_image", "generate_audio"}
       THEN /\ genYields' = Append(genYields, Update("thought", genCall, FALSE))
            /\ genPc' = "tool"
            /\ UNCHANGED genCall
       ELSE /\ genCall' = genCall + 1
            /\ UNCHANGED <<genPc, genYields>>
    /\ UNCHANGED <<genChunk, genPulled, genOutcome, genFailures, otherVars>>

\* constants.ts:145-146, 157-158: the tool is called and resolves, with a block
\* or with null; a block is yielded
gen_toolReturns(outcome) ==
    /\ genPc = "tool"
    /\ genChunk.calls[genCall].args
    /\ genOutcome' = outcome
    /\ genYields' = IF outcome = "block"
                    THEN Append(genYields, Update("block", genCall, FALSE))
                    ELSE genYields
    /\ genCall' = genCall + 1
    /\ genPc' = "calls"
    /\ UNCHANGED <<genChunk, genPulled, genFailures, otherVars>>

\* a catch block that throws the tool's error on to the consumer
AfterToolErrorRethrown == "failed"

\* constants.ts:147-149, 159-161: the catch block yields and the loop goes on
AfterToolError == "calls"

\* constants.ts:143-149, 155-161: the tool throws, or args.text is read from
\* absent args (line 157), inside the try; the catch block yields a text_delta
\* with the error text
gen_toolThrows ==
    /\ genPc = "tool"
    /\ genOutcome' = "throws"
    /\ genFailures' = genFailures + 1
    /\ genYields' = Append(genYields, Update("text_delta", genCall, TRUE))
    /\ genCall' = genCall + 1
    /\ genPc' = AfterToolError
    /\ UNCHANGED <<genChunk, genPulled, otherVars>>

\* ----------------------------------------------------------------- clock

\* the output context's currentTime advances while the context is running
Tick ==
    /\ outputCtx = "running"
    /\ clock < MaxTime
    /\ clock' = clock + 1
    /\ UNCHANGED <<status, pcStart, session, resourceVars, nextStartTime, chunks, schedule,
                   transportVars>>
    /\ UNCHANGED <<mediaSource, appVars>>

Next ==
    \/ startSession_create
    \/ startSession_createFails
    \/ startSession_gotMedia
    \/ startSession_mediaDenied
    \/ startSession_connected
    \/ startSession_connectFails
    \/ onclose
    \/ \E d \in Durations : onmessage_audio(d)
    \/ \E i \in 1..Len(chunks) : playAudio_resume(i)
    \/ \E i \in 1..Len(chunks) : playAudio_decodeFails(i)
    \/ stopSession
    \/ Tick

Spec == Init /\ [][Next]_vars

\* The session while the component stays mounted: stopSession is never called.
NextMounted ==
    \/ startSession_create
    \/ startSession_createFails
    \/ startSession_gotMedia
    \/ startSession_mediaDenied
    \/ startSession_connected
    \/ startSession_connectFails
    \/ onclose
    \/ \E d \in Durations : onmessage_audio(d)
    \/ \E i \in 1..Len(chunks) : playAudio_resume(i)
    \/ \E i \in 1..Len(chunks) : playAudio_decodeFails(i)
    \/ Tick

SpecMounted == Init /\ [][NextMounted]_vars

\* Playback in a session that is set up without failure: chunks are delivered
\* from the moment connect() is called and decoded in any order or not at all,
\* with the output clock running.
NextPlayback ==
    \/ startSession_create
    \/ startSession_gotMedia
    \/ startSession_connected
    \/ \E d \in Durations : onmessage_audio(d)
    \/ \E i \in 1..Len(chunks) : playAudio_resume(i)
    \/ \E i \in 1..Len(chunks) : playAudio_decodeFails(i)
    \/ Tick

SpecPlayback == Init /\ [][NextPlayback]_vars

\* The transport side of the session: messages of every shape, repeated close
\* events, the capture path and stopSession, with the output clock standing still.
NextTransport ==
    \/ startSession_create
    \/ startSession_createFails
    \/ startSession_gotMedia
    \/ startSession_mediaDenied
    \/ startSession_connected
    \/ startSession_connectFails
    \/ onclose
    \/ onclose_again
    \/ \E parts \in MessageShapes : \E d \in Durations : onmessage(parts, d)
    \/ \E i \in 1..Len(chunks) : playAudio_resume(i)
    \/ \E i \in 1..Len(chunks) : playAudio_decodeFails(i)
    \/ onaudioprocess
    \/ sendAudio_resume
    \/ stopSession

SpecTransport == Init /\ [][NextTransport]_vars

\* The mounted session with its capture path: messages of every shape and
\* microphone frames, no stopSession, the output clock standing still.
NextCapture ==
    \/ startSession_create
    \/ startSession_createFails
    \/ startSession_gotMedia
    \/ startSession_mediaDenied
    \/ startSession_connected
    \/ startSession_connectFails
    \/ onclose
    \/ \E parts \in MessageShapes : \E d \in Durations : onmessage(parts, d)
    \/ \E i \in 1..Len(chunks) : playAudio_resume(i)
    \/ \E i \in 1..Len(chunks) : playAudio_decodeFails(i)
    \/ onaudioprocess
    \/ sendAudio_resume

SpecCapture == Init /\ [][NextCapture]_vars

\* Sequential sessions: the component is unmounted and, later, mounted again
\* while the earlier instance's startSession goes on, to success or failure, its
\* transport closes and its chunks are still being delivered and decoded.
NextRemount ==
    \/ startSession_create
    \/ startSession_gotMedia
    \/ startSession_connected
    \/ \E d \in Durations : Len(chunks) < MaxEarly /\ onmessage_audio(d)
    \/ \E i \in 1..Len(chunks) : playAudio_resume(i)
    \/ \E i \in 1..Len(chunks) : playAudio_decodeFails(i)
    \/ unmount
    \/ mount
    \/ \E m \in 1..Len(prior) : prior_startSession_gotMedia(m)
    \/ \E m \in 1..Len(prior) : prior_startSession_mediaDenied(m)
    \/ \E m \in 1..Len(prior) : prior_startSession_connected(m)
    \/ \E m \in 1..Len(prior) : prior_startSession_connectFails(m)
    \/ \E m \in 1..Len(prior) : prior_onclose(m)
    \/ \E m \in 1..Len(prior) : \E d \in Durations : prior_playAudio_enter(m, d)
    \/ \E m \in 1..Len(prior) : \E j \in 1..Len(prior[m].decoding) : prior_playAudio_resume(m, j)
    \/ \E m \in 1..Len(prior) : \E j \in 1..Len(prior[m].decoding) : prior_playAudio_decodeFails(m, j)

SpecRemount == Init /\ [][NextRemount]_vars

\* The codec applied to a byte buffer: encoded, then decoded.
NextCodec ==
    \/ arrayBufferToBase64
    \/ b64ToUint8Array

SpecCodec == InitCodec /\ [][NextCodec]_vars

\* The chat: the user edits the input, attaches images and sends; the response
\* streams run side by side.
NextChat ==
    \/ \E text \in Inputs : setInput(text)
    \/ handleFileSelect
    \/ removeImage
    \/ \E elapsed \in Elapsed : \E tick \in Ticks : handleSend(elapsed, tick)
    \/ \E k \in 1..Len(sends) : \E type \in UpdateTypes : stream_update(k, type)
    \/ \E k \in 1..Len(sends) : stream_done(k)
    \/ \E k \in 1..Len(sends) : stream_throws(k)

SpecChat == Init /\ [][NextChat]_vars

\* The response streams of text-only sends, running side by side.
NextStreams ==
    \/ setInput("hi")
    \/ \E elapsed \in Elapsed : \E tick \in Ticks : handleSend(elapsed, tick)
    \/ \E k \in 1..Len(sends) : \E type \in UpdateTypes : stream_update(k, type)
    \/ \E k \in 1..Len(sends) : stream_done(k)
    \/ \E k \in 1..Len(sends) : stream_throws(k)

SpecStreams == Init /\ [][NextStreams]_vars

\* One run of the response generator over a model stream.
NextOrchestrate ==
    \/ gen_start
    \/ gen_streamThrows
    \/ \E chunk \in ModelChunks : gen_pull(chunk)
    \/ gen_end
    \/ gen_text
    \/ gen_grounding
    \/ gen_call
    \/ \E outcome \in {"block", "null"} : gen_toolReturns(outcome)
    \/ gen_toolThrows

SpecOrchestrate == Init /\ [][NextOrchestrate]_vars

\* The whole life of one instance: setup and its failures, remote close,
\* playback, capture and stopSession, with the output clock standing still.
NextLifecycle ==
    \/ startSession_create
    \/ startSession_createFails
    \/ startSession_gotMedia
    \/ startSession_mediaDenied
    \/ startSession_connected
    \/ startSession_connectFails
    \/ onclose
    \/ \E d \in Durations : onmessage_audio(d)
    \/ \E i \in 1..Len(chunks) : playAudio_resume(i)
    \/ \E i \in 1..Len(chunks) : playAudio_decodeFails(i)
    \/ onaudioprocess
    \/ sendAudio_resume
    \/ stopSession

SpecLifecycle == Init /\ [][NextLifecycle]_vars

\* Playback of a sequence of chunks whose durations are multiples of half a
\* second, with the output clock running.
NextBackToBack ==
    \/ startSession_create
    \/ startSession_gotMedia
    \/ startSession_connected
    \/ \E d \in HalfSeconds : onmessage_audio(d)
    \/ \E i \in 1..Len(chunks) : playAudio_resume(i)
    \/ Tick

SpecBackToBack == Init /\ [][NextBackToBack]_vars

\* ------------------------------------------------------------ properties

Scheduled == 1..Len(schedule)

\* the end of the playback interval of a scheduled buffer
EndOf(b) == b.t + b.d

TypeOK ==
    /\ status \in {"connecting", "active", "error", "disconnected"}
    /\ pcStart \in {"begin", "awaitMedia", "awaitConnect", "done", "failed"}
    /\ outputCtx \in {"null", "running", "closed"}
    /\ inputCtx \in {"null", "running", "closed"}
    /\ stream \in {"null", "live", "stopped"}
    /\ processor \in {"null", "created", "connected", "disconnected"}
    /\ session \in {"none", "opening", "open", "closed", "failed"}
    /\ clock \in 0..MaxTime
    /\ nextStartTime \in Nat
    /\ Len(chunks) <= MaxChunks
    /\ stops \in 0..MaxStops
    /\ onCloseCalls \in 0..MaxCloses
    /\ received \in 0..MaxChunks
    /\ captured \in 0..MaxFrames
    /\ mediaSource \in {"null", "created", "connected", "disconnected"}
    /\ mounts \in 1..MaxMounts
    /\ codecPc \in {"idle", "encoded", "decoded"}
    /\ isLoading \in BOOLEAN
    /\ attachedImage \in BOOLEAN
    /\ input \in Inputs
    /\ Len(sends) <= MaxSends
    /\ Len(messages) = 2 * Len(sends)
    /\ genPc \in {"start", "pull", "text", "grounding", "calls", "tool", "done", "failed"}
    /\ genChunk \in ModelChunks
    /\ genCall \in 0..(MaxCalls + 1)
    /\ genPulled \in 0..MaxStreamChunks
    /\ genOutcome \in {"none", "block", "null", "throws"}
    /\ Len(prior) = (IF mounts > 1 THEN 1 ELSE 0)

\* C1: gapless scheduling.  For two consecutively scheduled buffers B1 and
\* B2, if playAudio for B2 was entered before the clock reached the end of B1,
\* then B2 starts exactly at the end of B1.
C1_GaplessScheduling ==
    \A k \in Scheduled :
        k + 1 \in Scheduled =>
            LET B1 == schedule[k]
                B2 == schedule[k + 1]
            IN  chunks[B2.id].enteredAt < EndOf(B1) => B2.t = EndOf(B1)

\* C2: no scheduling in the past.  At each source.start(t), t is at or after
\* the output clock at that instant.
C2_NoSchedulingInPast ==
    \A k \in Scheduled : schedule[k].t >= schedule[k].now

\* C3: resync after stall.  A chunk that entered playAudio at time `now` with
\* the cursor at or before `now` is started exactly at `now`.
C3_ResyncAfterStall ==
    \A k \in Scheduled :
        chunks[schedule[k].id].idle => schedule[k].t = chunks[schedule[k].id].enteredAt

\* C4: the Playback Cursor never decreases, in any step of any interleaving.
C4_CursorMonotone == [][nextStartTime' >= nextStartTime]_vars

\* C4 witness: one resync write has raised the cursor to a later clock, another
\* has kept a cursor that was ahead of the clock, and the advance write has
\* moved it past a scheduled buffer.
C4_Witness ==
    /\ \E i \in 1..Len(chunks) : chunks[i].idle /\ chunks[i].enteredAt > 0
    /\ \E i \in 1..Len(chunks) : ~chunks[i].idle
    /\ \E k \in Scheduled : nextStartTime >= EndOf(schedule[k]) /\ schedule[k].t > 0

\* C5: every write to the cursor leaves it at or above the output clock at
\* the moment of the write (the resync write and the advance write alike).
C5_CursorWriteNotBelowClock ==
    [][nextStartTime' # nextStartTime => nextStartTime' >= clock']_vars

\* C6: non-overlap.  The playback intervals [t, t+d) of any two scheduled
\* buffers are disjoint.
C6_NonOverlap ==
    \A j \in Scheduled : \A k \in Scheduled :
        j # k => \/ EndOf(schedule[j]) <= schedule[k].t
                 \/ EndOf(schedule[k]) <= schedule[j].t

\* C6 witness: two chunks were in flight together and the later one was
\* scheduled first.
C6_Witness ==
    \E j \in Scheduled : \E k \in Scheduled :
        /\ j < k
        /\ schedule[j].id > schedule[k].id
        /\ chunks[schedule[j].id].enteredAt <= schedule[k].now

\* C7: inbound order preservation.  A chunk delivered earlier is started
\* strictly earlier.
C7_InboundOrder ==
    \A j \in Scheduled : \A k \in Scheduled :
        schedule[j].id < schedule[k].id => schedule[j].t < schedule[k].t

\* C8: cancellation on teardown.  Once stopSession has run, no buffer is
\* scheduled any more.
C8_NoScheduleAfterStop ==
    \A k \in Scheduled : ~schedule[k].stopped

\* C9: teardown during setup.  Once stopSession has run and startSession has
\* finished, no microphone track is live, no capture processor is connected
\* and no audio context is open.
C9_TeardownDuringSetup ==
    (stops >= 1 /\ pcStart \in {"done", "failed"}) =>
        /\ stream # "live"
        /\ processor # "connected"
        /\ inputCtx # "running"
        /\ outputCtx # "running"

\* C10: idempotent teardown.  After two or more stopSession calls, each
\* acquired resource has had its release operation performed exactly once.
C10_IdempotentTeardown ==
    stops >= 2 =>
        /\ stream # "null" => released.track = 1
        /\ processor # "null" => released.processor = 1
        /\ inputCtx # "null" => released.inputCtx = 1
        /\ outputCtx # "null" => released.outputCtx = 1

\* the statuses the session is meant to end in
Terminal == {"disconnected", "error"}

\* no microphone track live, no capture processor connected, no context open
NoResourceLive ==
    /\ stream # "live"
    /\ processor # "connected"
    /\ inputCtx # "running"
    /\ outputCtx # "running"

\* C11: teardown on disconnect or error.  In the step in which the status
\* becomes disconnected or error, the resources acquired so far are released.
C11_TeardownOnTerminal ==
    [][(status \notin Terminal /\ status' \in Terminal) => NoResourceLive']_vars

\* C12: terminal states.  Once the status is disconnected or error it never
\* changes again.
C12_TerminalStates == [][(status \in Terminal) => (status' = status)]_vars

\* the cursor as the last scheduled chunk advanced it
LastAdvanced == EndOf(schedule[Len(schedule)])

\* C13: a decode failure leaves the cursor intact.  When a chunk has failed and
\* no other chunk is in flight, the cursor is where the last scheduled chunk
\* left it.
C13_DecodeFailureLeavesCursor ==
    ( /\ schedule # << >>
      /\ \E i \in 1..Len(chunks) : chunks[i].pc = "failed"
      /\ \A i \in 1..Len(chunks) : chunks[i].pc # "decoding" )
    => nextStartTime = LastAdvanced

\* C14: a decode failure is contained in its chunk.  The step in which a decode
\* fails changes neither the status nor the session nor any resource, and a
\* chunk is in the schedule exactly when its own decode succeeded, whatever
\* failed before it.
C14_DecodeFailureContained ==
    /\ [](\A i \in 1..Len(chunks) :
            chunks[i].pc = "scheduled" <=> \E k \in Scheduled : schedule[k].id = i)
    /\ [][(\E i \in 1..Len(chunks) : chunks[i].pc = "decoding" /\ chunks'[i].pc = "failed")
            => (status' = status /\ session' = session /\ UNCHANGED resourceVars)]_vars

\* C14 witness: a chunk failed while the session was active, the session is
\* still active and a chunk delivered after it has been scheduled.
C14_Witness ==
    /\ status = "active"
    /\ \E i \in 1..Len(chunks) : \E k \in Scheduled :
          chunks[i].pc = "failed" /\ schedule[k].id > i

\* C15: failed start.  In the step in which context creation, microphone access
\* or connect() fails the status becomes error; afterwards the status is never
\* active and startSession goes no further: no new connect (the session is not
\* opened again), no new microphone request.
C15_FailedStart ==
    /\ [][(pcStart # "failed" /\ pcStart' = "failed") => status' = "error"]_vars
    /\ [](pcStart = "failed" => status # "active")
    /\ [][pcStart = "failed" =>
            (pcStart' = "failed" /\ session' \in {session, "closed"}
             /\ stream' = stream)]_vars

\* C15 witness: connect() was rejected during the handshake.
C15_Witness == pcStart = "failed" /\ session = "failed" /\ status = "error"

\* C16: activation ordering.  The status is active only once connect() has
\* resolved, and while it is still connecting no chunk has entered playAudio and
\* no frame has been passed to sendAudio.
C16_ActivationOrdering ==
    /\ status = "active" => pcStart = "done"
    /\ status = "connecting" => (Len(chunks) = 0 /\ captured = 0)

\* C17: the onClose callback is invoked at most once in a session, however
\* many close events the transport emits.
C17_OnCloseAtMostOnce == onCloseCalls <= 1

\* C18: a remote close is surfaced.  When the open session closes while the
\* status is active, onClose is invoked and the status becomes disconnected.
C18_RemoteCloseSurfaced ==
    [][(session = "open" /\ status = "active" /\ session' = "closed")
        => (status' = "disconnected" /\ onCloseCalls' = onCloseCalls + 1)]_vars

\* C18 witness: the session was active and has been closed by the remote side.
C18_Witness ==
    pcStart = "done" /\ session = "closed" /\ status = "disconnected" /\ onCloseCalls = 1

\* C19: the audio callback is invoked exactly once for each audio chunk the
\* messages carried, in whichever part of a message it came.
C19_OneCallbackPerChunk == Len(chunks) = received

\* C20: outbound order.  The frames handed to sendRealtimeInput, followed by
\* those still awaiting the session promise, are the captured frames in
\* capture order, each exactly once.
C20_OutboundOrder ==
    LET all == sent \o awaiting
    IN  /\ Len(all) = captured
        /\ \A k \in 1..Len(all) : all[k] = k

\* C20 witness: two frames were captured and both have been transmitted.
C20_Witness == Len(sent) >= 2 /\ awaiting = << >>

\* C21: complete release on stop.  A stopSession that runs after the session
\* reached active leaves every microphone track stopped, the media-stream source
\* node, the capture processor node and every playback buffer source node
\* disconnected, and both audio contexts closed.
C21_CompleteReleaseOnStop ==
    [][(pcStart = "done" /\ stops' = stops + 1) =>
          ( /\ stream' = "stopped"
            /\ processor' = "disconnected"
            /\ mediaSource' = "disconnected"
            /\ \A k \in 1..Len(schedule') : schedule'[k].node = "disconnected"
            /\ inputCtx' = "closed"
            /\ outputCtx' = "closed" )]_vars

\* C22: cursor isolation between sessions.  Every mount starts with a cursor of
\* its own equal to 0 and leaves the cursor of the instance before it as it was;
\* a step of the mounted session's playAudio changes no earlier session's
\* cursor, and a step of an earlier session changes not the mounted session's
\* cursor.
C22_CursorIsolation ==
    [][ /\ (mounts' = mounts + 1) =>
               /\ nextStartTime' = 0
               /\ prior'[Len(prior')].nextStartTime = nextStartTime
        /\ (mounts' = mounts /\ chunks' # chunks) =>
               \A m \in 1..Len(prior) : prior'[m].nextStartTime = prior[m].nextStartTime
        /\ \A m \in 1..Len(prior) :
               (mounts' = mounts /\ prior'[m] # prior[m]) =>
                   nextStartTime' = nextStartTime
      ]_vars

\* C22 witness: an earlier session was unmounted while its connect() was
\* pending and with a decode pending; after the present session was mounted its
\* connect() resolved, it took another chunk and scheduled both; the present
\* session has scheduled a chunk of its own, and the two cursors differ.
C22_Witness ==
    /\ mounts = 2
    /\ schedule # << >>
    /\ prior[1].status = "active"
    /\ prior[1].late > 0
    /\ prior[1].decoding = << >>
    /\ prior[1].nextStartTime > nextStartTime
    /\ nextStartTime > 0

\* the sum of the durations of the first n chunks delivered
RECURSIVE PrefixSum(_)
PrefixSum(n) == IF n = 0 THEN 0 ELSE PrefixSum(n - 1) + chunks[n].d

\* no chunk found the cursor behind a clock that had left 0
NoStall == \A i \in 1..Len(chunks) : chunks[i].idle => chunks[i].enteredAt = 0

\* the chunks were scheduled in the order they were delivered
InOrder == \A k \in Scheduled : schedule[k].id = k

\* C23: schedule of a back-to-back sequence.  With the cursor starting at 0 at
\* output time 0, no stall, and chunks of durations d1..dn processed in order,
\* the k-th chunk is started at d1+...+d(k-1) and the cursor stands at the sum
\* of the durations scheduled so far; durations 1.0 s, 0.5 s, 2.0 s (2, 1, 4
\* half seconds) give starts 0, 2, 3 and a final cursor of 7.
C23_BackToBackSchedule ==
    (NoStall /\ InOrder) =>
        /\ \A k \in Scheduled : schedule[k].t = PrefixSum(k - 1)
        /\ nextStartTime = PrefixSum(Len(schedule))
        /\ ( /\ Len(schedule) = 3
             /\ chunks[1].d = 2 /\ chunks[2].d = 1 /\ chunks[3].d = 4 )
           => ( /\ schedule[1].t = 0 /\ schedule[2].t = 2 /\ schedule[3].t = 3
                /\ nextStartTime = 7 )

\* C23 witness: the chunks of 1.0 s, 0.5 s and 2.0 s were delivered while the
\* clock ran without passing the cursor, and were scheduled in order.
C23_Witness ==
    /\ NoStall /\ InOrder
    /\ Len(schedule) = 3
    /\ chunks[1].d = 2 /\ chunks[2].d = 1 /\ chunks[3].d = 4
    /\ chunks[3].enteredAt > 0

\* C24: single pending decode.  At most one chunk of a session is between the
\* start of its processing and its scheduling at any time.
C24_SinglePendingDecode ==
    Cardinality({i \in 1..Len(chunks) : chunks[i].pc = "decoding"}) <= 1

\* a step in which playAudio takes a chunk or schedules one
PlayAudioStep ==
    \/ Len(chunks') = Len(chunks) + 1
    \/ \E i \in 1..Len(chunks) : chunks[i].pc = "decoding" /\ chunks'[i].pc = "scheduled"

\* C25: cursor frame condition.  The cursor changes only in a step of playAudio
\* handling a chunk; that step changes neither the status nor the session, and
\* every other step (startSession, stopSession, capture, sendAudio, remote
\* close) leaves the cursor as it is.
C25_CursorFrame ==
    [][(nextStartTime' # nextStartTime) =>
          (PlayAudioStep /\ status' = status /\ session' = session /\ stops' = stops
           /\ UNCHANGED captureVars)]_vars

\* C25 witness: the cursor was advanced by scheduled chunks, one of them
\* scheduled after stopSession, and the session has captured and sent a frame,
\* was closed by the remote side and stopped.
C25_Witness ==
    /\ \E k \in Scheduled : schedule[k].stopped /\ EndOf(schedule[k]) = nextStartTime
    /\ \E k \in Scheduled : ~schedule[k].stopped
    /\ nextStartTime > 0
    /\ sent # << >>
    /\ status = "disconnected"
    /\ stops >= 1

\* the session has ended: the remote close callback has fired or stopSession
\* has run
Ended == onCloseCalls >= 1 \/ stops >= 1

\* C27: no outbound audio after the session has ended.  Once the remote close
\* callback has fired or stopSession has run, no further frame is handed to
\* sendRealtimeInput.
C27_NoSendAfterEnd == [][Ended => (sent' = sent)]_vars

\* C26: base64 round trip.  For every byte buffer b, decoding the base64 text
\* produced from b yields exactly b.
C26_Base64RoundTrip == (codecPc = "decoded") => (codecOut = codecIn)

\* C26 witness: a buffer whose length is not a multiple of 3, with bytes that
\* set the high bits, went through the codec; its text carries padding.
C26_Witness ==
    /\ codecPc = "decoded"
    /\ Len(codecIn) = 2
    /\ codecIn[1] = 255 /\ codecIn[2] = 128
    /\ codecText[4] = Pad

\* the bot placeholder message of invocation k: handleSend appends a user
\* message and the placeholder, and nothing else adds or removes a message
BotMsg(msgs, k) == msgs[2 * k]

\* C28: chat send always settles.  In the step in which a stream ends, normally
\* or by a throw, isLoading becomes false and the bot message of that invocation
\* has isThinking false; on a throw its content is the content received so far
\* followed by the "[Connection interrupted]" text block; afterwards the bot
\* message of a settled invocation is never thinking again and that of a failed
\* one still ends with the "[Connection interrupted]" block.
C28_SendSettles ==
    /\ [][\A k \in 1..Len(sends) :
            (sends[k].pc = "streaming" /\ sends'[k].pc # "streaming") =>
                /\ isLoading' = FALSE
                /\ BotMsg(messages', k).isThinking = FALSE
                /\ (sends'[k].pc = "failed") =>
                       BotMsg(messages', k).content
                           = Append(BotMsg(messages, k).content, Interrupted)
                /\ (sends'[k].pc = "done") =>
                       BotMsg(messages', k).content = BotMsg(messages, k).content
         ]_vars
    /\ [](\A k \in 1..Len(sends) :
            sends[k].pc # "streaming" => ~BotMsg(messages, k).isThinking)
    /\ [](\A k \in 1..Len(sends) :
            sends[k].pc = "failed" =>
                LET content == BotMsg(messages, k).content
                IN  /\ content # << >>
                    /\ content[Len(content)].type = "text"
                    /\ content[Len(content)].content = Interrupted.content)

\* C29: isLoading tracks the streams in flight.  Whenever a response stream
\* started by handleSend has not finished, isLoading is true.
C29_LoadingTracksStreams ==
    (\E k \in 1..Len(sends) : sends[k].pc = "streaming") => isLoading

\* the place of an update in the order of a chunk: text, grounding, then the
\* results of the function calls
Phase(u) == IF u.call > 0 THEN 2 ELSE IF u.type = "grounding" THEN 1 ELSE 0

\* C30: tool failure containment.  In the step in which generateImage or
\* generateAudio throws, the generator yields one text_delta carrying the
\* error and goes on with the next function call of the same chunk; it leaves a
\* chunk only after the last function call, with a thought yielded for every
\* tool call, and returns only when the model stream is exhausted; the updates
\* of a chunk are in the order text, grounding, function-call results.
C30_ToolFailureContained ==
    /\ [][(genPc = "tool" /\ genOutcome' = "throws" /\ genFailures' # genFailures) =>
            /\ genYields' = Append(genYields, Update("text_delta", genCall, TRUE))
            /\ genPc' = "calls"
            /\ genCall' = genCall + 1
            /\ genChunk' = genChunk
            /\ genPulled' = genPulled
         ]_vars
    /\ [][(genPc' = "done" /\ genPc # "done") => genPc = "pull"]_vars
    /\ []((genPc = "pull" /\ genPulled > 0) =>
            /\ genCall = Len(genChunk.calls) + 1
            /\ \A c \in 1..Len(genChunk.calls) :
                  genChunk.calls[c].name # "other" =>
                      \E a \in 1..Len(genYields) :
                          genYields[a].type = "thought" /\ genYields[a].call = c)
    /\ [](\A a \in 1..Len(genYields) : \A b \in 1..Len(genYields) :
            a < b => /\ Phase(genYields[a]) <= Phase(genYields[b])
                     /\ genYields[a].call <= genYields[b].call)

\* C30 witness: the generator returned after two chunks; a tool threw in the
\* first, and in the second a tool threw for the first function call and the
\* second function call still yielded its block, after the text and grounding.
C30_Witness ==
    /\ genPc = "done"
    /\ genPulled = 2
    /\ genFailures = 2
    /\ Len(genYields) = 6
    /\ genYields[1] = Update("text_delta", 0, FALSE)
    /\ genYields[2] = Update("grounding", 0, FALSE)
    /\ genYields[4] = Update("text_delta", 1, TRUE)
    /\ genYields[6] = Update("block", 2, FALSE)

====
